---- MODULE Spec2Model ----
(***************************************************************************)
(* Model of poc-pdf (src/main.go): the signature-extraction pipeline       *)
(*   convertPDFToPNG -> extractSignature -> removeWhiteBackground -> save  *)
(* A Mat is a record [rows, cols, ch, px] whose px maps <<y, x>> to a      *)
(* <<b, g, r>> triple (gocv stores colour as BGR).  A single-channel Mat   *)
(* maps <<y, x>> to one intensity.  An image.RGBA is [w, h, px] whose px   *)
(* maps <<x, y>> to <<R, G, B, A>>.                                        *)
(***************************************************************************)
EXTENDS Integers, Sequences, FiniteSets, TLC

\* ------------------------------------------------------------- bounds
\* A rendered page is PageW pixels wide and three rows high (the lowest page on
\* which a sparse diagonal stroke and a dense bar fit side by side), white, with
\* at most MaxInk pixels of ink.
PageW == 4
MaxInk == 5
PageRows == 0 .. 2
PageH == Cardinality(PageRows)
\* A function called on its own gets one pixel whose channels are 0, 10, 100, 255
\* or within Delta of the cutoff 200.
Delta == 3

\* ------------------------------------------------- program constants
\* gocv.Threshold(gray, &bin, 200, 255, gocv.ThresholdBinaryInv); the README
\* suggests 150 or 220 for other scans.
Thresh220 == 220
Thresh == 200
MaxVal == 255
\* if r > 200 && g > 200 && b > 200
NearWhite == 200
\* OpenCV's 8-bit BGR->gray: (b*B2Y + g*G2Y + r*R2Y + 2^(GrayShift-1)) >> GrayShift
B2Y == 3735
G2Y == 19235
R2Y == 9798
GrayShift == 15

RECURSIVE Pow2(_)
Pow2(n) == IF n = 0 THEN 1 ELSE 2 * Pow2(n - 1)

\* ---------------------------------------------------------- gocv.Mat
Coords(rows, cols) == (0 .. rows - 1) \X (0 .. cols - 1)

\* gocv.NewMat(): an empty Mat (no rows, no columns, type CV_8UC1).
NewMat == [rows |-> 0, cols |-> 0, ch |-> 1, px |-> <<>>]

Empty(m) == m.rows = 0 \/ m.cols = 0

\* gocv.CvtColor(img, &gray, gocv.ColorBGRToGray) on one pixel.
GrayHalf == Pow2(GrayShift - 1)
GrayOne == Pow2(GrayShift)
GrayOf(bgr) == (bgr[1] * B2Y + bgr[2] * G2Y + bgr[3] * R2Y + GrayHalf) \div GrayOne

CvtColor(img) ==
    [rows |-> img.rows, cols |-> img.cols, ch |-> 1,
     px |-> [p \in Coords(img.rows, img.cols) |-> GrayOf(img.px[p])]]

\* gocv.ThresholdBinaryInv on one intensity: 0 if src > thresh, else maxval.
ThresholdBinaryInvMut(src, thresh, maxval) == IF src >= thresh THEN 0 ELSE maxval
ThresholdBinaryInv(src, thresh, maxval) == IF src > thresh THEN 0 ELSE maxval

Threshold(gray, thresh, maxval) ==
    [rows |-> gray.rows, cols |-> gray.cols, ch |-> 1,
     px |-> [p \in Coords(gray.rows, gray.cols) |->
                ThresholdBinaryInv(gray.px[p], thresh, maxval)]]

\* -------------------------------------------------- gocv.FindContours
Adjacent8(p, q) ==
    /\ p # q
    /\ p[1] - q[1] \in {-1, 0, 1}
    /\ p[2] - q[2] \in {-1, 0, 1}

Adjacent4(p, q) ==
    \/ p[1] = q[1] /\ p[2] - q[2] \in {-1, 1}
    \/ p[2] = q[2] /\ p[1] - q[1] \in {-1, 1}

\* The 8-connected blob of `fg` grown from `seen` (whose newest pixels are `frontier`).
RECURSIVE Flood8(_, _, _)
Flood8(frontier, seen, fg) ==
    LET next == {q \in fg \ seen : \E p \in frontier : Adjacent8(p, q)}
    IN  IF next = {} THEN seen ELSE Flood8(next, seen \cup next, fg)

\* The first pixel of a non-empty set in raster order (top row first, then leftmost).
RasterFirst(S) ==
    CHOOSE p \in S : \A q \in S : p[1] < q[1] \/ (p[1] = q[1] /\ p[2] <= q[2])

\* The 8-connected blobs of `fg`, in the order a raster scan meets them.
RECURSIVE Blobs(_)
Blobs(fg) ==
    IF fg = {} THEN <<>>
    ELSE LET first == RasterFirst(fg)
             c     == Flood8({first}, {first}, fg)
         IN  <<c>> \o Blobs(fg \ c)

\* The pixels not in blob `d` that a 4-connected path of such pixels joins to the
\* outside of the image (the image is padded by one pixel of background).
RECURSIVE Flood4(_, _, _)
Flood4(frontier, seen, free) ==
    LET next == {q \in free \ seen : \E p \in frontier : Adjacent4(p, q)}
    IN  IF next = {} THEN seen ELSE Flood4(next, seen \cup next, free)

Outside(d, rows, cols) ==
    Flood4({<<-1, -1>>}, {<<-1, -1>>}, ((-1 .. rows) \X (-1 .. cols)) \ d)

MinY(c) == CHOOSE v \in {p[1] : p \in c} : \A p \in c : v <= p[1]
MaxY(c) == CHOOSE v \in {p[1] : p \in c} : \A p \in c : v >= p[1]
MinX(c) == CHOOSE v \in {p[2] : p \in c} : \A p \in c : v <= p[2]
MaxX(c) == CHOOSE v \in {p[2] : p \in c} : \A p \in c : v >= p[2]

\* Blob c lies in a hole of blob d: no pixel of c reaches the outside around d.
\* (A hole that holds another blob is at least 3x3, so d's box strictly holds c's.)
InHoleOf(c, d, rows, cols) ==
    /\ MinX(d) < MinX(c) /\ MaxX(c) < MaxX(d)
    /\ MinY(d) < MinY(c) /\ MaxY(c) < MaxY(d)
    /\ c \cap Outside(d, rows, cols) = {}

RECURSIVE Reverse(_)
Reverse(s) == IF s = <<>> THEN <<>> ELSE Reverse(Tail(s)) \o <<Head(s)>>

\* gocv.FindContours(bin, gocv.RetrievalExternal, gocv.ChainApproxSimple): one
\* contour per 8-connected blob of non-zero pixels that lies in no hole of another
\* blob.  A contour is kept as the blob's pixel set (its outer boundary spans the
\* same rows and columns).  OpenCV's order of the contours is the scan order or
\* its reverse, by library version: `rev` picks.
FindContours(bin, rev) ==
    LET fg  == {p \in Coords(bin.rows, bin.cols) : bin.px[p] # 0}
        all == Blobs(fg)
        External(c) ==
            \A i \in 1 .. Len(all) : all[i] = c \/ ~InHoleOf(c, all[i], bin.rows, bin.cols)
        ext == SelectSeq(all, External)
    IN  IF rev THEN Reverse(ext) ELSE ext

\* ------------------------------------------------------ image.Rectangle
ZeroRect == [minX |-> 0, minY |-> 0, maxX |-> 0, maxY |-> 0]
Dx(r) == r.maxX - r.minX
Dy(r) == r.maxY - r.minY

\* gocv.BoundingRect(c): the up-right box of the contour's points, Max exclusive.
BoundingRectMut(c) ==
    [minX |-> MinX(c), minY |-> MinY(c), maxX |-> MaxX(c), maxY |-> MaxY(c)]
BoundingRect(c) ==
    [minX |-> MinX(c), minY |-> MinY(c), maxX |-> MaxX(c) + 1, maxY |-> MaxY(c) + 1]

\* area := float64(rect.Dx() * rect.Dy())
AreaMut(c) == Cardinality(c)
Area(c) == Dx(BoundingRect(c)) * Dy(BoundingRect(c))

\* The loop of extractSignature over the contours: the first contour whose area
\* is strictly greater than every earlier one's wins (maxArea starts at 0).
RECURSIVE LargestFrom(_, _, _, _)
LargestFrom(contours, i, maxArea, maxRect) ==
    IF i > Len(contours) THEN maxRect
    ELSE LET rect == BoundingRect(contours[i])
             area == Area(contours[i])
         IN  IF area > maxArea
             THEN LargestFrom(contours, i + 1, area, rect)
             ELSE LargestFrom(contours, i + 1, maxArea, maxRect)

\* img.Region(rect) followed by Clone(): an independent Mat of the box's pixels.
RegionMut(img, rect) ==
    [rows |-> Dy(rect), cols |-> Dx(rect), ch |-> img.ch,
     px |-> [p \in Coords(Dy(rect), Dx(rect)) |-> img.px[p]]]
Region(img, rect) ==
    [rows |-> Dy(rect), cols |-> Dx(rect), ch |-> img.ch,
     px |-> [p \in Coords(Dy(rect), Dx(rect)) |->
                img.px[<<p[1] + rect.minY, p[2] + rect.minX>>]]]

\* ------------------------------------------------------------- errors
NoErr == ""
ErrPdftoppm == "pdftoppm error"
ErrUnreadable == "unable to read image"
ErrNoContours == "no contours found - cannot find signature"
ErrChannels == "expected 3-channel BGR image"
ErrCreate == "Failed to create output file"
ErrEncode == "Failed to encode PNG"

\* ---------------------------------------------------- extractSignature
\* if contours.Size() == 0
NoContoursMut(cs) == FALSE
NoContours(cs) == Len(cs) = 0

\* extractSignature(imgPath), given the Mat that IMRead decodes from imgPath (an
\* empty Mat for a missing or undecodable file) and the contour order `rev`.
\* bin and contours are reported beside the function's two results.
ExtractSignature(img, rev) ==
    IF Empty(img)
    THEN [mat |-> NewMat, err |-> ErrUnreadable, bin |-> NewMat,
          contours |-> <<>>, rect |-> ZeroRect]
    ELSE LET gray == CvtColor(img)
             b    == Threshold(gray, Thresh, MaxVal)
             cs   == FindContours(b, rev)
         IN  IF NoContours(cs)
             THEN [mat |-> NewMat, err |-> ErrNoContours, bin |-> b,
                   contours |-> cs, rect |-> ZeroRect]
             ELSE LET maxRect == LargestFrom(cs, 1, 0, ZeroRect)
                  IN  [mat |-> Region(img, maxRect), err |-> NoErr, bin |-> b,
                       contours |-> cs, rect |-> maxRect]

\* ----------------------------------------------- removeWhiteBackground
NilImage == [w |-> 0, h |-> 0, px |-> <<>>]

\* if r > 200 && g > 200 && b > 200
IsNearWhiteGeq(r, g, b) == r >= NearWhite /\ g >= NearWhite /\ b >= NearWhite
IsNearWhiteAny(r, g, b) == r > NearWhite \/ g > NearWhite \/ b > NearWhite
IsNearWhite(r, g, b) == r > NearWhite /\ g > NearWhite /\ b > NearWhite

\* color.RGBA{R: 255, G: 255, B: 255, A: 0}
TransparentMut == <<0, 0, 0, 0>>
Transparent == <<255, 255, 255, 0>>

\* The body of the pixel loop: bVec is <<Blue, Green, Red>>, the result <<R, G, B, A>>.
MattePixel(bVec) ==
    LET b == bVec[1]
        g == bVec[2]
        r == bVec[3]
    IN  IF IsNearWhite(r, g, b) THEN Transparent ELSE <<r, g, b, 255>>

\* removeWhiteBackground(input): an image.RGBA of input's size, or an error.
RemoveWhiteBackground(input) ==
    IF input.ch # 3
    THEN [img |-> NilImage, err |-> ErrChannels]
    ELSE [img |-> [w |-> input.cols, h |-> input.rows,
                   px |-> [p \in (0 .. input.cols - 1) \X (0 .. input.rows - 1) |->
                              MattePixel(input.px[<<p[2], p[1]>>])]],
          err |-> NoErr]

\* The R, G, B channels of an RGBA image as a 3-channel BGR Mat (alpha dropped).
ToMat(image) ==
    [rows |-> image.h, cols |-> image.w, ch |-> 3,
     px |-> [p \in Coords(image.h, image.w) |->
                <<image.px[<<p[2], p[1]>>][3], image.px[<<p[2], p[1]>>][2],
                  image.px[<<p[2], p[1]>>][1]>>]]

\* ------------------------------------------------------------ png.Encode
\* color.NRGBAModel.Convert of an alpha-premultiplied color.RGBA.
ToNRGBA(c) ==
    LET r16 == c[1] * 257
        g16 == c[2] * 257
        b16 == c[3] * 257
        a16 == c[4] * 257
    IN  IF a16 = 65535 THEN <<c[1], c[2], c[3], 255>>
        ELSE IF a16 = 0 THEN <<0, 0, 0, 0>>
        ELSE <<(((r16 * 65535) \div a16) \div 256) % 256,
               (((g16 * 65535) \div a16) \div 256) % 256,
               (((b16 * 65535) \div a16) \div 256) % 256,
               a16 \div 256>>

\* The pixels a decoder reads back from what png.Encode writes for an image.RGBA;
\* an image with no pixels is refused.
EncodePNG(image) ==
    IF image.w = 0 \/ image.h = 0
    THEN [img |-> NilImage, err |-> ErrEncode]
    ELSE [img |-> [w |-> image.w, h |-> image.h,
                   px |-> [p \in DOMAIN image.px |-> ToNRGBA(image.px[p])]],
          err |-> NoErr]

\* ------------------------------------------------------------- inputs
White == <<255, 255, 255>>
Black == <<0, 0, 0>>
\* Ink colours of a page: black, and the two greys either side of the cutoffs.
InkColours == {Black, <<200, 200, 200>>, <<201, 201, 201>>}

\* The subsets of S with at most k elements.
RECURSIVE SubsetsUpTo(_, _)
SubsetsUpTo(S, k) ==
    IF k = 0 \/ S = {} THEN {{}}
    ELSE LET x    == CHOOSE e \in S : TRUE
             rest == S \ {x}
         IN  SubsetsUpTo(rest, k) \cup {T \cup {x} : T \in SubsetsUpTo(rest, k - 1)}

InkSets == SubsetsUpTo(Coords(PageH, PageW), MaxInk)

\* A rendered page: white, with `ink` at the pixels of `marks`.
Page(marks, ink) ==
    [rows |-> PageH, cols |-> PageW, ch |-> 3,
     px |-> [p \in Coords(PageH, PageW) |-> IF p \in marks THEN ink ELSE White]]

\* What IMRead can decode from pngPath: a page, or nothing (an empty Mat).
PngFiles == {NewMat} \cup {Page(m, c) : m \in InkSets, c \in InkColours}

\* -------------------------------------------------------------- state
VARIABLES
    pc,             \* where main (or the caller of a single function) is
    png,            \* the Mat that IMRead decodes from pngPath
    bin,            \* the thresholded mask extractSignature computed
    contours,       \* the contours it found
    maxRect,        \* the bounding box it chose
    signatureMat,   \* main's signatureMat
    signatureImage, \* main's signatureImage
    rematted,       \* removeWhiteBackground applied to signatureImage's RGB
    err,            \* the error main died of
    outFile,        \* signature_result.png: "absent", "empty" or "written"
    outImage        \* the pixels written to signature_result.png

vars == <<pc, png, bin, contours, maxRect, signatureMat, signatureImage, rematted,
          err, outFile, outImage>>

\* The process is started: main has run nothing yet.
InitMain ==
    /\ pc = "start"
    /\ png = NewMat
    /\ bin = NewMat
    /\ contours = <<>>
    /\ maxRect = ZeroRect
    /\ signatureMat = NewMat
    /\ signatureImage = NilImage
    /\ rematted = NilImage
    /\ err = NoErr
    /\ outFile = "absent"
    /\ outImage = NilImage

\* main with no argument: prints the usage and returns.
Usage ==
    /\ pc = "start"
    /\ pc' = "usage"
    /\ UNCHANGED <<png, bin, contours, maxRect, signatureMat, signatureImage,
                   rematted, err, outFile, outImage>>

\* Step 1: pdftoppm fails, or leaves some file (or none) at pngPath.
ConvertPDFToPNG ==
    /\ pc = "start"
    /\ \E ok \in BOOLEAN, f \in PngFiles :
         IF ok
         THEN pc' = "converted" /\ png' = f /\ err' = NoErr
         ELSE pc' = "fatal" /\ png' = NewMat /\ err' = ErrPdftoppm /\ f = NewMat
    /\ UNCHANGED <<bin, contours, maxRect, signatureMat, signatureImage, rematted,
                   outFile, outImage>>

\* Step 2: extractSignature(pngPath).
ExtractSignatureStep ==
    /\ pc = "converted"
    /\ \E rev \in BOOLEAN :
         LET res == ExtractSignature(png, rev)
         IN  /\ signatureMat' = res.mat
             /\ err' = res.err
             /\ bin' = res.bin
             /\ contours' = res.contours
             /\ maxRect' = res.rect
             /\ pc' = IF res.err # NoErr THEN "fatal" ELSE "extracted"
    /\ UNCHANGED <<png, signatureImage, rematted, outFile, outImage>>

\* Step 3: removeWhiteBackground(signatureMat).
RemoveWhiteBackgroundStep ==
    /\ pc = "extracted"
    /\ LET res == RemoveWhiteBackground(signatureMat)
       IN  /\ signatureImage' = res.img
           /\ err' = res.err
           /\ pc' = IF res.err # NoErr THEN "fatal" ELSE "matted"
    /\ UNCHANGED <<png, bin, contours, maxRect, signatureMat, rematted, outFile, outImage>>

\* Step 4: os.Create and png.Encode; the file system may refuse either.
SaveResult ==
    /\ pc = "matted"
    /\ \E created \in BOOLEAN, wrote \in BOOLEAN :
         LET enc == EncodePNG(signatureImage)
         IN  IF ~created
             THEN /\ wrote
                  /\ pc' = "fatal" /\ err' = ErrCreate
                  /\ UNCHANGED <<outFile, outImage>>
             ELSE IF ~wrote \/ enc.err # NoErr
             THEN /\ pc' = "fatal" /\ err' = ErrEncode
                  /\ outFile' = "empty" /\ UNCHANGED outImage
             ELSE /\ pc' = "done" /\ err' = NoErr
                  /\ outFile' = "written" /\ outImage' = enc.img
    /\ UNCHANGED <<png, bin, contours, maxRect, signatureMat, signatureImage, rematted>>

\* ------------------------------------------- the functions on their own
ChanVals == {0, 10, 100, 255} \cup (NearWhite - Delta .. NearWhite + Delta)

\* A 1x1 BGR Mat holding the pixel `bgr`.
OnePixel(bgr) == [rows |-> 1, cols |-> 1, ch |-> 3, px |-> [p \in Coords(1, 1) |-> bgr]]

\* A caller holds a one-pixel colour Mat and is about to hand it to the functions.
InitPixel ==
    /\ pc = "px_in"
    /\ signatureMat \in {OnePixel(c) : c \in ChanVals \X ChanVals \X ChanVals}
    /\ png = NewMat
    /\ bin = NewMat
    /\ contours = <<>>
    /\ maxRect = ZeroRect
    /\ signatureImage = NilImage
    /\ rematted = NilImage
    /\ err = NoErr
    /\ outFile = "absent"
    /\ outImage = NilImage

\* The grayscale and threshold steps of extractSignature on the Mat.
PixelClassify ==
    /\ pc = "px_in"
    /\ bin' = Threshold(CvtColor(signatureMat), Thresh, MaxVal)
    /\ pc' = "px_bin"
    /\ UNCHANGED <<png, contours, maxRect, signatureMat, signatureImage, rematted,
                   err, outFile, outImage>>

\* removeWhiteBackground on the Mat.
PixelMatte ==
    /\ pc = "px_bin"
    /\ LET res == RemoveWhiteBackground(signatureMat)
       IN  /\ signatureImage' = res.img
           /\ err' = res.err
           /\ pc' = IF res.err # NoErr THEN "px_fatal" ELSE "px_matted"
    /\ UNCHANGED <<png, bin, contours, maxRect, signatureMat, rematted, outFile, outImage>>

\* removeWhiteBackground on the R, G, B channels of its own output.
PixelRematte ==
    /\ pc = "px_matted"
    /\ LET res == RemoveWhiteBackground(ToMat(signatureImage))
       IN  /\ rematted' = res.img
           /\ err' = res.err
           /\ pc' = IF res.err # NoErr THEN "px_fatal" ELSE "px_rematted"
    /\ UNCHANGED <<png, bin, contours, maxRect, signatureMat, signatureImage,
                   outFile, outImage>>

Init == InitMain \/ InitPixel

Next ==
    \/ Usage
    \/ ConvertPDFToPNG
    \/ ExtractSignatureStep
    \/ RemoveWhiteBackgroundStep
    \/ SaveResult
    \/ PixelClassify
    \/ PixelMatte
    \/ PixelRematte

Spec == Init /\ [][Next]_vars

\* ============================================================ properties
\* main got past extractSignature (resp. removeWhiteBackground) without an error.
Extracted ==
    \/ pc \in {"extracted", "matted", "done"}
    \/ pc = "fatal" /\ err \in {ErrChannels, ErrCreate, ErrEncode}
Matted ==
    \/ pc \in {"matted", "done"}
    \/ pc = "fatal" /\ err \in {ErrCreate, ErrEncode}
\* A caller of the single functions got past the threshold (resp. the matting).
PixelClassified == pc \in {"px_bin", "px_matted", "px_rematted"}
PixelMatted == pc \in {"px_matted", "px_rematted"}
\* The colour Mat the thresholded mask was computed from.
Source == IF pc \in {"px_in", "px_bin", "px_matted", "px_rematted", "px_fatal"}
          THEN signatureMat ELSE png
ImageCoords(image) == (0 .. image.w - 1) \X (0 .. image.h - 1)

\* ---- C1
C1_Expected(bgr) ==
    IF bgr[3] > 200 /\ bgr[2] > 200 /\ bgr[1] > 200
    THEN <<255, 255, 255, 0>>
    ELSE <<bgr[3], bgr[2], bgr[1], 255>>

C2_StrictlyBelowIsForeground ==
    (PixelClassified \/ (Extracted /\ ~Empty(png))) =>
        \A p \in Coords(bin.rows, bin.cols) :
            /\ GrayOf(Source.px[p]) < 200 => bin.px[p] = 255
            /\ GrayOf(Source.px[p]) >= 200 => bin.px[p] = 0

\* C2 amended: every pixel whose grayscale intensity is <= 200 (exactly 200
\* included) is FOREGROUND and every pixel of intensity > 200 is BACKGROUND.
C2_AtMostCutoffIsForeground ==
    (PixelClassified \/ (Extracted /\ ~Empty(png))) =>
        /\ bin.rows = Source.rows /\ bin.cols = Source.cols
        /\ \A p \in Coords(bin.rows, bin.cols) :
            /\ GrayOf(Source.px[p]) <= 200 => bin.px[p] = 255
            /\ GrayOf(Source.px[p]) > 200 => bin.px[p] = 0

C2_Witness ==
    /\ pc = "px_bin"
    /\ GrayOf(signatureMat.px[<<0, 0>>]) = 200
    /\ bin.px[<<0, 0>>] = 255

\* ---- C3
C3_BoxArea(c) == (MaxX(c) - MinX(c) + 1) * (MaxY(c) - MinY(c) + 1)
C3_Box(c) ==
    [minX |-> MinX(c), minY |-> MinY(c), maxX |-> MaxX(c) + 1, maxY |-> MaxY(c) + 1]

\* C3: when the mask holds at least one region, extractSignature selects a region
\* whose bounding-box area (width x height) is at least that of every other
\* region, whatever the regions' counts of foreground pixels.
C3_LargestBoundingBox ==
    (Extracted /\ contours # <<>>) =>
        /\ \E i \in 1 .. Len(contours) : maxRect = C3_Box(contours[i])
        /\ \A i \in 1 .. Len(contours) :
             C3_BoxArea(contours[i]) <= Dx(maxRect) * Dy(maxRect)

\* A sparse region with the larger box was chosen over a denser one.
C3_Witness ==
    /\ pc = "extracted"
    /\ \E i, j \in 1 .. Len(contours) :
         /\ maxRect = C3_Box(contours[i])
         /\ C3_BoxArea(contours[i]) > C3_BoxArea(contours[j])
         /\ Cardinality(contours[i]) < Cardinality(contours[j])

\* ---- C4
C4_Attempted == pc \in {"extracted", "matted", "done", "fatal"} /\ err # ErrPdftoppm
C4_NoForeground == ~Empty(png) /\ \A p \in Coords(png.rows, png.cols) : GrayOf(png.px[p]) > 200
C4_NothingProduced ==
    /\ pc = "fatal"
    /\ signatureMat = NewMat
    /\ signatureImage = NilImage
    /\ outFile = "absent"
    /\ outImage = NilImage

\* C4: a page whose mask has no foreground region (every all-white page) makes
\* extractSignature return the "no contours found" error, a different error from
\* the "unable to read image" one of an undecodable or empty input; in both cases
\* no crop is produced and the run writes no output image.
C4_DistinctErrorsNoOutput ==
    C4_Attempted =>
        /\ Empty(png) => (err = "unable to read image" /\ C4_NothingProduced)
        /\ C4_NoForeground =>
             (err = "no contours found - cannot find signature" /\ C4_NothingProduced)
        /\ err = "no contours found - cannot find signature" => C4_NoForeground
        /\ err = "unable to read image" => Empty(png)

C4_Witness ==
    /\ pc = "fatal"
    /\ png = Page({}, White)
    /\ err = "no contours found - cannot find signature"
    /\ outFile = "absent"

\* ---- C5
\* C5: whenever extractSignature succeeds the chosen box has width > 0 and
\* height > 0 and lies inside the source image, the crop has exactly the box's
\* width and height, and the image removeWhiteBackground makes of the crop has
\* the crop's width and height.
C5_BoxAndSizes ==
    /\ Extracted =>
         /\ Dx(maxRect) > 0 /\ Dy(maxRect) > 0
         /\ 0 <= maxRect.minX /\ maxRect.maxX <= png.cols
         /\ 0 <= maxRect.minY /\ maxRect.maxY <= png.rows
         /\ signatureMat.cols = Dx(maxRect) /\ signatureMat.rows = Dy(maxRect)
         /\ DOMAIN signatureMat.px = Coords(Dy(maxRect), Dx(maxRect))
    /\ Matted =>
         /\ signatureImage.w = signatureMat.cols /\ signatureImage.h = signatureMat.rows
         /\ DOMAIN signatureImage.px =
                (0 .. signatureMat.cols - 1) \X (0 .. signatureMat.rows - 1)

\* A crop that is neither square nor the whole page went through the matting.
C5_Witness ==
    /\ pc = "matted"
    /\ signatureImage.w = 2 /\ signatureImage.h = 3
    /\ maxRect.minX > 0

\* ---- C6
C6_Ink == {p \in Coords(png.rows, png.cols) : png.px[p] # <<255, 255, 255>>}
C6_InkBox ==
    [minX |-> MinX(C6_Ink), minY |-> MinY(C6_Ink),
     maxX |-> MaxX(C6_Ink) + 1, maxY |-> MaxY(C6_Ink) + 1]
\* The page is white but for one solid black axis-aligned rectangle.
C6_OneBlackRectangle ==
    /\ ~Empty(png)
    /\ C6_Ink # {}
    /\ \A p \in C6_Ink : png.px[p] = <<0, 0, 0>>
    /\ Cardinality(C6_Ink) = Dx(C6_InkBox) * Dy(C6_InkBox)

\* C6: on a white page with exactly one solid black axis-aligned rectangle,
\* extractSignature chooses exactly the rectangle's bounds, and the matted crop
\* has exactly the rectangle's size with every pixel black and alpha 255.
C6_SolidRectangle ==
    (C4_Attempted /\ C6_OneBlackRectangle) =>
        /\ Extracted
        /\ maxRect = C6_InkBox
        /\ Matted =>
             /\ signatureImage.w = Dx(C6_InkBox)
             /\ signatureImage.h = Dy(C6_InkBox)
             /\ \A p \in ImageCoords(signatureImage) :
                  signatureImage.px[p] = <<0, 0, 0, 255>>

\* A 2x2 black square away from the page's corner was cropped and matted.
C6_Witness ==
    /\ pc = "matted"
    /\ C6_OneBlackRectangle
    /\ C6_InkBox = [minX |-> 1, minY |-> 1, maxX |-> 3, maxY |-> 3]
    /\ signatureImage.w = 2 /\ signatureImage.h = 2

C8_Idempotent ==
    pc = "px_rematted" =>
        /\ rematted.w = signatureImage.w /\ rematted.h = signatureImage.h
        /\ \A p \in ImageCoords(signatureImage) : rematted.px[p] = signatureImage.px[p]

\* A pixel made transparent the first time was matted again.
C8_Witness ==
    /\ pc = "px_rematted"
    /\ signatureMat.px[<<0, 0>>] = <<201, 255, 202>>
    /\ signatureImage.px[<<0, 0>>][4] = 0
    /\ rematted.px[<<0, 0>>][4] = 0

\* ---- C9
\* The cutoffs a caller may want: the default and the README's two suggestions.
C9_CallerThresholds == {150, 200, 220}

\* C9: the cutoff is the caller's: whichever T the caller of extractSignature
\* supplies, the mask classifies each pixel of the page by that T (intensity
\* above T is BACKGROUND), 200 being only the default.
C9_CallerThresholdUsed ==
    (C4_Attempted /\ ~Empty(png)) =>
        \A T \in C9_CallerThresholds :
            \A p \in Coords(png.rows, png.cols) :
                bin.px[p] = (IF GrayOf(png.px[p]) > T THEN 0 ELSE 255)

\* ---- C10
\* C10: in every run that gets through extractSignature and
\* removeWhiteBackground, every pixel of the crop that the threshold made
\* FOREGROUND is alpha 255 in the final image.
C10_InkStaysOpaque ==
    (Matted \/ PixelMatted) =>
        \A p \in ImageCoords(signatureImage) :
            bin.px[<<p[2] + maxRect.minY, p[1] + maxRect.minX>>] # 0
                => signatureImage.px[p][4] = 255

\* A crop holding both ink and background went through the matting.
C10_Witness ==
    /\ pc = "matted"
    /\ \E p \in ImageCoords(signatureImage) :
         /\ bin.px[<<p[2] + maxRect.minY, p[1] + maxRect.minX>>] # 0
         /\ signatureImage.px[p][4] = 255
    /\ \E p \in ImageCoords(signatureImage) :
         /\ bin.px[<<p[2] + maxRect.minY, p[1] + maxRect.minX>>] = 0
         /\ signatureImage.px[p][4] = 0
====
